---- MODULE Spec2Model ----
(***************************************************************************)
(* InkChatGPT (src/app.py): a Streamlit page on which a user uploads a     *)
(* document, has it indexed ("Process File") and asks questions about it.  *)
(*                                                                         *)
(* Streamlit runs the script once per widget event and per session, each   *)
(* run on its own thread: build_sidebar() and then main().  A session's    *)
(* st.session_state is its own; st.secrets and the working directory are   *)
(* shared by every session of the server process.  One action of the       *)
(* model is one stretch of a script run between two points at which        *)
(* another session's run can be observed (the shared file, st.secrets) or  *)
(* at which an external call returns or raises.                            *)
(***************************************************************************)
EXTENDS Integers, Sequences, FiniteSets, TLC

VARIABLES
    users,       \* per session: what its user may enter and what the
                 \* services may answer it
    secrets,     \* st.secrets, one per server process: whether it holds
                 \* OPENAI_API_KEY, and the key
    disk,        \* the working directory: path -> bytes of the file there
    pc,          \* per session: where its current script run stands
    page,        \* per session: the widgets the last run rendered
    uploaded,    \* per session: the name of the file in the file_uploader
                 \* widget, the empty string when it holds none
    keyInput,    \* per session: the value of the "OpenAI API Key" text input
    crc,         \* per session: st.session_state.crc
    history,     \* per session: st.session_state["history"]
    messages,    \* per session: st.session_state["messages"]
    run,         \* per session: the locals of the current (last) script run
    building     \* per session: the vector store load_and_process_file builds

vars == <<users, secrets, disk, pc, page, uploaded, keyInput, crc, history, messages,
          run, building>>

----------------------------------------------------------------------------
(* Bounds and input sets *)

Sessions == {"A", "B"}

\* Turns held by all sessions together before no further question is asked.
MaxTurns == 2

\* Chunks the splitter yields for a loaded document.
NumChunks == 2

Questions == {"q1", "q2"}
Answers == {"a1", "a2"}

\* The sessions connected to the server.
Live == {s \in Sessions : pc[s] # "off"}

None == "None"

\* A string is a sequence of one-character strings.
EmptyStr == <<>>
SkPrefix == <<"s", "k", "-">>
EnvKey == <<"s", "k", "-", "E">>
UserKey(s) == SkPrefix \o <<s>>
BadKey == <<"x">>

FileNames ==
    { <<"a", ".", "t", "x", "t">>,
      <<"a", ".", "p", "d", "f">>,
      <<"a", ".", "d", "o", "c", "x">>,
      <<"a", ".", "P", "D", "F">> }

\* The bytes of the file named n that the user of session s uploads.
FileBytes(s, n) == s

NoUser == [names |-> {}, keys |-> {}, questions |-> {}, answers |-> {}]

\* One user alone, with every input.
OneUser ==
    [s \in Sessions |->
        IF s = "A"
        THEN [names |-> FileNames, keys |-> {UserKey(s), BadKey},
              questions |-> Questions, answers |-> Answers]
        ELSE NoUser]

\* Two users at once: "A" uploads, has its file processed and asks; "B" enters
\* a key and has a file of the same name processed.
TwoUsers ==
    [s \in Sessions |->
        [names |-> IF s = "A"
                   THEN {<<"a", ".", "t", "x", "t">>, <<"a", ".", "P", "D", "F">>}
                   ELSE {<<"a", ".", "t", "x", "t">>},
         keys |-> {UserKey(s)},
         questions |-> IF s = "A" THEN {"q1"} ELSE {},
         answers |-> {"a1"}]]

----------------------------------------------------------------------------
(* Strings *)

StartsWith(str, prefix) ==
    /\ Len(str) >= Len(prefix)
    /\ SubSeq(str, 1, Len(prefix)) = prefix

\* str.rfind(c), 1-based; 0 when c does not occur.
RFind(str, c) ==
    LET I == {i \in 1..Len(str) : str[i] = c}
    IN  IF I = {} THEN 0 ELSE CHOOSE i \in I : \A j \in I : j <= i

\* os.path.join("./", file_data.name)
FilePath(name) == <<".", "/">> \o name

\* The second component of os.path.splitext(path): the text from the last dot
\* of the last path component, unless only dots precede it there.
splitext(path) ==
    LET sepIndex == RFind(path, "/")
        dotIndex == RFind(path, ".")
    IN  IF /\ dotIndex > sepIndex
           /\ \E i \in (sepIndex + 1)..(dotIndex - 1) : path[i] # "."
        THEN SubSeq(path, dotIndex, Len(path))
        ELSE EmptyStr

\* A dispatch whose else branch falls back to the text loader.
LoaderForAnyText(extension) ==
    IF extension = <<".", "p", "d", "f">> THEN "PyPDFLoader"
    ELSE IF extension = <<".", "d", "o", "c", "x">> THEN "Docx2txtLoader"
    ELSE "TextLoader"

\* The loader load_and_process_file picks for an extension, None for the else
\* branch ("This document format is not supported!").
LoaderFor(extension) ==
    IF extension = <<".", "p", "d", "f">> THEN "PyPDFLoader"
    ELSE IF extension = <<".", "d", "o", "c", "x">> THEN "Docx2txtLoader"
    ELSE IF extension = <<".", "t", "x", "t">> THEN "TextLoader"
    ELSE None

\* Python truthiness of a key string.
Truthy(key) == key # EmptyStr

\* The hosted service can only accept a request that carries a key of the
\* service's form; it may reject or fail any request.
MayAccept(key) == StartsWith(key, SkPrefix)

----------------------------------------------------------------------------------------------------------------------------------------
(* Session state *)

\* st.session_state without "history", and with it.
NoHistory == [has |-> FALSE, turns |-> <<>>]
HistoryOf(turns) == [has |-> TRUE, turns |-> turns]

\* Conversation Memory: the turns under st.session_state["history"].
Mem(s) == history[s].turns

TotalTurns ==
    LET RECURSIVE Sum(_)
        Sum(S) == IF S = {} THEN 0
                  ELSE LET x == CHOOSE y \in S : TRUE
                       IN  Len(Mem(x)) + Sum(S \ {x})
    IN  Sum(Live)

\* A vector store: the file it was loaded from, whose bytes the loader read,
\* how many of the document's chunks are embedded in it, and the key the
\* embeddings client was given.
NoIndex == [set |-> FALSE, name |-> EmptyStr, doc |-> None, chunks |-> 0,
            embedKey |-> EmptyStr]

\* A ConversationalRetrievalChain: a retriever over a vector store and a chat
\* model with its key.
NoCrc == [set |-> FALSE, index |-> NoIndex, llmKey |-> EmptyStr]

Complete(index) == index.set /\ index.chunks = NumChunks

Greeting == <<"assistant", "hello">>

NoPage == [uploader |-> FALSE, button |-> "none", keybox |-> FALSE, chat |-> "none"]

\* The locals of a script run as it starts, with the session state it found.
NewRun(s, kind, prompt) ==
    [ kind |-> kind,            \* the widget event that started the run
      prompt |-> prompt,        \* what st.chat_input returns on this run
      status |-> "running",     \* running, done, exception, stopped
      shown |-> {},             \* what the run has written to the page
      calls |-> {},             \* the external calls the run has made
      mem0 |-> Mem(s),          \* Conversation Memory as the run found it
      crc0 |-> crc[s],          \* st.session_state.crc as the run found it
      guardKeys |-> {},         \* the key line 166 read, when it read one
      chatHistory |-> <<>>,     \* the chat_history handed to crc.run
      response |-> None,        \* crc.run's return value
      delivered |-> None ]      \* the text streamed into the chat message

NoRun == [ kind |-> "none", prompt |-> None, status |-> "done", shown |-> {},
           calls |-> {}, mem0 |-> <<>>, crc0 |-> NoCrc, guardKeys |-> {},
           chatHistory |-> <<>>, response |-> None, delivered |-> None ]

Start ==
    /\ disk = [n \in FileNames |-> None]
    /\ pc = [s \in Sessions |-> IF users[s] = NoUser THEN "off" ELSE "idle"]
    /\ page = [s \in Sessions |-> NoPage]
    /\ uploaded = [s \in Sessions |-> EmptyStr]
    /\ keyInput = [s \in Sessions |-> EmptyStr]
    /\ crc = [s \in Sessions |-> NoCrc]
    /\ history = [s \in Sessions |-> NoHistory]
    /\ messages = [s \in Sessions |-> <<>>]
    /\ run = [s \in Sessions |-> NoRun]
    /\ building = [s \in Sessions |-> NoIndex]

\* secrets.toml may define no OPENAI_API_KEY, an empty one, or a key.
Init ==
    /\ users = OneUser
    /\ secrets \in { [has |-> FALSE, key |-> EmptyStr],
                     [has |-> TRUE, key |-> EmptyStr],
                     [has |-> TRUE, key |-> EnvKey] }
    /\ Start

\* Two users on a server whose secrets.toml holds an empty key.
InitTwo ==
    /\ users = TwoUsers
    /\ secrets = [has |-> TRUE, key |-> EmptyStr]
    /\ Start

----------------------------------------------------------------------------
(* A script run starts: build_sidebar *)

\* A run ends: the script returned, raised (Streamlit shows the exception on
\* the page) or was stopped by the user's next event.
Ended(r, status) ==
    [r EXCEPT !.status = status,
              !.shown = IF status = "exception" THEN @ \cup {"exception"} ELSE @]

\* build_sidebar on a run started by a widget event; file is the uploader's
\* value and addFile the value of the "Process File" button on this run.
build_sidebar(s, kind, prompt, file, addFile) ==
    LET r == NewRun(s, kind, prompt)
        sidebar == [NoPage EXCEPT !.uploader = TRUE]
    IN  IF ~secrets.has
        THEN \* line 164: st.secrets has no attribute OPENAI_API_KEY
             /\ run' = [run EXCEPT ![s] = Ended(r, "exception")]
             /\ page' = [page EXCEPT ![s] = sidebar]
             /\ pc' = [pc EXCEPT ![s] = "idle"]
             /\ UNCHANGED disk
        ELSE LET disabled == file = EmptyStr /\ ~Truthy(secrets.key)
                 read == addFile /\ file # EmptyStr
                 r1 == [r EXCEPT !.guardKeys = IF read THEN {secrets.key} ELSE {}]
             IN  /\ page' = [page EXCEPT ![s] =
                        [sidebar EXCEPT !.button = IF disabled THEN "off" ELSE "on"]]
                 /\ run' = [run EXCEPT ![s] = r1]
                 /\ IF read /\ StartsWith(secrets.key, SkPrefix)
                    THEN \* load_and_process_file, lines 26-28
                         /\ disk' = [disk EXCEPT ![file] = FileBytes(s, file)]
                         /\ pc' = [pc EXCEPT ![s] = "load"]
                    ELSE /\ UNCHANGED disk
                         /\ pc' = [pc EXCEPT ![s] = "main"]

\* The browser opens the page: the session's first run.
OpenPage(s) ==
    /\ pc[s] = "idle"
    /\ ~page[s].uploader
    /\ build_sidebar(s, "open", None, uploaded[s], FALSE)
    /\ UNCHANGED <<users, secrets, uploaded, keyInput, crc, history, messages, building>>

\* The user puts a file into the uploader.
SelectFile(s, name) ==
    /\ pc[s] = "idle"
    /\ page[s].uploader
    /\ name # uploaded[s]
    /\ uploaded' = [uploaded EXCEPT ![s] = name]
    /\ build_sidebar(s, "select", None, name, FALSE)
    /\ UNCHANGED <<users, secrets, keyInput, crc, history, messages, building>>

\* The user types into the "OpenAI API Key" input.
TypeKey(s, key) ==
    /\ pc[s] = "idle"
    /\ page[s].keybox
    /\ key # keyInput[s]
    /\ keyInput' = [keyInput EXCEPT ![s] = key]
    /\ build_sidebar(s, "key", None, uploaded[s], FALSE)
    /\ UNCHANGED <<users, secrets, uploaded, crc, history, messages, building>>

\* The user clicks "Process File".
ClickProcess(s) ==
    /\ pc[s] = "idle"
    /\ page[s].button = "on"
    /\ build_sidebar(s, "process", None, uploaded[s], TRUE)
    /\ UNCHANGED <<users, secrets, uploaded, keyInput, crc, history, messages, building>>

\* The user submits a question in the chat input.
Submit(s, question) ==
    /\ pc[s] = "idle"
    /\ page[s].chat = "on"
    /\ TotalTurns < MaxTurns
    /\ build_sidebar(s, "ask", question, uploaded[s], FALSE)
    /\ UNCHANGED <<users, secrets, uploaded, keyInput, crc, history, messages, building>>

----------------------------------------------------------------------------
(* load_and_process_file *)

\* The run of session s raises: Streamlit shows the exception and the run ends.
Raise(s, r) ==
    /\ run' = [run EXCEPT ![s] = Ended(r, "exception")]
    /\ pc' = [pc EXCEPT ![s] = "idle"]

\* Lines 30-41 on an extension with no loader.
Unsupported(s) ==
    /\ pc[s] = "load"
    /\ LoaderFor(splitext(FilePath(uploaded[s]))) = None
    /\ run' = [run EXCEPT ![s].shown = @ \cup {"unsupported"}]
    /\ pc' = [pc EXCEPT ![s] = "main"]
    /\ UNCHANGED <<users, secrets, disk, page, uploaded, keyInput, crc, history,
                   messages, building>>

\* Lines 30-43: loader.load() reads the file now at the path.
Load(s) ==
    LET name == uploaded[s]
        loader == LoaderFor(splitext(FilePath(name)))
    IN  /\ pc[s] = "load"
        /\ loader # None
        /\ run' = [run EXCEPT ![s].calls = @ \cup {loader}]
        /\ building' = [building EXCEPT ![s] =
               [NoIndex EXCEPT !.set = TRUE, !.name = name, !.doc = disk[name]]]
        /\ pc' = [pc EXCEPT ![s] = "split"]
        /\ UNCHANGED <<users, secrets, disk, page, uploaded, keyInput, crc, history,
                       messages>>

\* loader.load() raises (a file the parser cannot read).
LoadFail(s) ==
    LET loader == LoaderFor(splitext(FilePath(uploaded[s])))
    IN  /\ pc[s] = "load"
        /\ loader # None
        /\ Raise(s, [run[s] EXCEPT !.calls = @ \cup {loader}])
        /\ UNCHANGED <<users, secrets, disk, page, uploaded, keyInput, crc, history,
                       messages, building>>

\* Lines 45-50: the chunks, and the embeddings client with the key of now.
Split(s) ==
    /\ pc[s] = "split"
    /\ run' = [run EXCEPT ![s].calls = @ \cup {"splitter"}]
    /\ building' = [building EXCEPT ![s].embedKey = secrets.key]
    /\ pc' = [pc EXCEPT ![s] = "embed"]
    /\ UNCHANGED <<users, secrets, disk, page, uploaded, keyInput, crc, history, messages>>

\* A build that hands the store back once its first chunk is in.
from_documents_returns_early(index) == index.chunks >= 1

\* Chroma.from_documents returns once every chunk is embedded and stored.
from_documents_returns(index) == index.chunks = NumChunks

\* st.session_state.crc while load_and_process_file is still building.
CrcWhileBuilding(s, index) == crc[s]

\* Line 51, one chunk: the embedding service answers and the chunk is stored.
EmbedChunk(s) ==
    LET index == [building[s] EXCEPT !.chunks = @ + 1]
    IN  /\ pc[s] = "embed"
        /\ building[s].chunks < NumChunks
        /\ MayAccept(building[s].embedKey)
        /\ building' = [building EXCEPT ![s] = index]
        /\ run' = [run EXCEPT ![s].calls = @ \cup {"embeddings"}]
        /\ crc' = [crc EXCEPT ![s] = CrcWhileBuilding(s, index)]
        /\ pc' = [pc EXCEPT ![s] =
               IF from_documents_returns(index) THEN "publish" ELSE "embed"]
        /\ UNCHANGED <<users, secrets, disk, page, uploaded, keyInput, history, messages>>

\* Line 51: the embedding service rejects or fails a request.
EmbedFail(s) ==
    /\ pc[s] = "embed"
    /\ building[s].chunks < NumChunks
    /\ Raise(s, [run[s] EXCEPT !.calls = @ \cup {"embeddings"}])
    /\ building' = [building EXCEPT ![s] = NoIndex]
    /\ UNCHANGED <<users, secrets, disk, page, uploaded, keyInput, crc, history, messages>>

\* A "Process File" that starts the conversation over.
HistoryResetByProcess(s) == NoHistory

\* Conversation Memory after a file has been processed.
HistoryAfterProcess(s) == history[s]

\* Lines 52 and 170-175: initialize_chat_model, and the chain goes into the
\* session state.
Publish(s) ==
    /\ pc[s] = "publish"
    /\ crc' = [crc EXCEPT ![s] =
           [set |-> TRUE, index |-> building[s], llmKey |-> secrets.key]]
    /\ history' = [history EXCEPT ![s] = HistoryAfterProcess(s)]
    /\ building' = [building EXCEPT ![s] = NoIndex]
    /\ run' = [run EXCEPT ![s].shown = @ \cup {"processed"}]
    /\ pc' = [pc EXCEPT ![s] = "main"]
    /\ UNCHANGED <<users, secrets, disk, page, uploaded, keyInput, messages>>

----------------------------------------------------------------------------
(* main *)

\* Lines 83-97 with openai_api_key = key: the messages start over, the chat
\* input is rendered, and a submitted prompt goes to handle_question.
chat_input(s, r, key, keybox) ==
    LET asked == r.prompt # None /\ Truthy(key)
    IN  /\ page' = [page EXCEPT ![s] =
               [@ EXCEPT !.keybox = keybox,
                         !.chat = IF Truthy(key) THEN "on" ELSE "off"]]
        /\ messages' = [messages EXCEPT ![s] =
               IF asked THEN <<Greeting, <<"user", r.prompt>>>> ELSE <<Greeting>>]
        /\ IF asked
           THEN /\ run' = [run EXCEPT ![s] = r]
                /\ pc' = [pc EXCEPT ![s] = "ask"]
           ELSE /\ run' = [run EXCEPT ![s] = Ended(r, "done")]
                /\ pc' = [pc EXCEPT ![s] = "idle"]

\* Lines 74-75: the secrets hold a key; the key input is not rendered, and
\* Streamlit drops the value of a widget a run does not render.
MainWithKey(s) ==
    /\ pc[s] = "main"
    /\ Truthy(secrets.key)
    /\ keyInput' = [keyInput EXCEPT ![s] = EmptyStr]
    /\ chat_input(s, run[s], secrets.key, FALSE)
    /\ UNCHANGED <<users, secrets, disk, uploaded, crc, history, building>>

\* Lines 74 and 76-77: the secrets hold no key; the key input is rendered.
MainNoKey(s) ==
    /\ pc[s] = "main"
    /\ ~Truthy(secrets.key)
    /\ page' = [page EXCEPT ![s].keybox = TRUE]
    /\ pc' = [pc EXCEPT ![s] = "setkey"]
    /\ UNCHANGED <<users, secrets, disk, uploaded, keyInput, crc, history, messages,
                   run, building>>

\* Lines 78-81: the typed key goes into the process-wide secrets.
SetKey(s) ==
    LET key == keyInput[s]
        r == [run[s] EXCEPT !.shown =
                 IF Truthy(key) THEN @ ELSE @ \cup {"add your key"}]
    IN  /\ pc[s] = "setkey"
        /\ secrets' = [secrets EXCEPT !.key = key]
        /\ chat_input(s, r, key, TRUE)
        /\ UNCHANGED <<users, disk, uploaded, keyInput, crc, history, building>>

----------------------------------------------------------------------------
(* handle_question *)

\* A handle_question that does not look for the chain.
HasChainUnchecked(s) == TRUE

\* Line 104: whether st.session_state holds a chain.
HasChain(s) == crc[s].set

\* An assignment in place of the append.
AppendTurnReplacing(turns, question, response) == <<<<question, response>>>>

\* Line 116
AppendTurn(turns, question, response) == Append(turns, <<question, response>>)

\* Line 104 raises: st.session_state has no attribute "crc".
AskNoChain(s) ==
    /\ pc[s] = "ask"
    /\ ~HasChain(s)
    /\ Raise(s, run[s])
    /\ UNCHANGED <<users, secrets, disk, page, uploaded, keyInput, crc, history,
                   messages, building>>

\* Lines 104-116: the chain answers and the turn is recorded.
Retrieve(s, response) ==
    /\ pc[s] = "ask"
    /\ HasChain(s)
    /\ MayAccept(crc[s].index.embedKey)
    /\ MayAccept(crc[s].llmKey)
    /\ history' = [history EXCEPT ![s] =
           HistoryOf(AppendTurn(Mem(s), run[s].prompt, response))]
    /\ run' = [run EXCEPT ![s].calls = @ \cup {"crc.run"},
                          ![s].chatHistory = Mem(s),
                          ![s].response = response]
    /\ pc' = [pc EXCEPT ![s] = "invoke"]
    /\ UNCHANGED <<users, secrets, disk, page, uploaded, keyInput, crc, messages, building>>

\* Lines 104-109: crc.run raises.
RetrieveFail(s) ==
    /\ pc[s] = "ask"
    /\ HasChain(s)
    /\ history' = [history EXCEPT ![s] = HistoryOf(Mem(s))]
    /\ Raise(s, [run[s] EXCEPT !.calls = @ \cup {"crc.run"},
                               !.chatHistory = Mem(s)])
    /\ UNCHANGED <<users, secrets, disk, page, uploaded, keyInput, crc, messages, building>>

\* Lines 118-131: a second chat model, given the page's messages and the key
\* of now, streams its answer into the chat message.
Invoke(s, content) ==
    /\ pc[s] = "invoke"
    /\ MayAccept(secrets.key)
    /\ messages' = [messages EXCEPT ![s] = Append(@, <<"assistant", content>>)]
    /\ run' = [run EXCEPT ![s] =
           Ended([@ EXCEPT !.calls = @ \cup {"llm.invoke"},
                           !.delivered = content], "done")]
    /\ pc' = [pc EXCEPT ![s] = "idle"]
    /\ UNCHANGED <<users, secrets, disk, page, uploaded, keyInput, crc, history, building>>

\* Line 128: llm.invoke raises.
InvokeFail(s) ==
    /\ pc[s] = "invoke"
    /\ Raise(s, [run[s] EXCEPT !.calls = @ \cup {"llm.invoke"}])
    /\ UNCHANGED <<users, secrets, disk, page, uploaded, keyInput, crc, history,
                   messages, building>>

\* The user's next event arrives while the answer streams: Streamlit stops
\* the run where it stands.
Interrupt(s) ==
    /\ pc[s] = "invoke"
    /\ run' = [run EXCEPT ![s] =
           Ended([@ EXCEPT !.calls = @ \cup {"llm.invoke"}], "stopped")]
    /\ pc' = [pc EXCEPT ![s] = "idle"]
    /\ UNCHANGED <<users, secrets, disk, page, uploaded, keyInput, crc, history,
                   messages, building>>

\* clear_history, lines 147-152
clear_history(s) ==
    /\ pc[s] = "idle"
    /\ history[s].has
    /\ history' = [history EXCEPT ![s] = NoHistory]
    /\ run' = [run EXCEPT ![s] = Ended(NewRun(s, "clear", None), "done")]
    /\ UNCHANGED <<users, secrets, disk, pc, page, uploaded, keyInput, crc, messages,
                   building>>

----------------------------------------------------------------------------

Step(s) ==
    \/ OpenPage(s)
    \/ \E name \in users[s].names : SelectFile(s, name)
    \/ \E key \in users[s].keys : TypeKey(s, key)
    \/ ClickProcess(s)
    \/ \E question \in users[s].questions : Submit(s, question)
    \/ Unsupported(s)
    \/ Load(s)
    \/ LoadFail(s)
    \/ Split(s)
    \/ EmbedChunk(s)
    \/ EmbedFail(s)
    \/ Publish(s)
    \/ MainWithKey(s)
    \/ MainNoKey(s)
    \/ SetKey(s)
    \/ AskNoChain(s)
    \/ \E response \in users[s].answers : Retrieve(s, response)
    \/ RetrieveFail(s)
    \/ \E content \in users[s].answers : Invoke(s, content)
    \/ InvokeFail(s)
    \/ Interrupt(s)
    \/ clear_history(s)

Next == \E s \in Sessions : Step(s)

Spec == Init /\ [][Next]_vars

SpecTwo == InitTwo /\ [][Next]_vars

----------------------------------------------------------------------------
(* Properties *)

\* handle_question ran to its end on this run of session s.
Answered(s) ==
    /\ pc[s] = "idle"
    /\ run[s].status = "done"
    /\ "llm.invoke" \in run[s].calls

\* C1: a handle_question call that completes without error leaves Conversation
\* Memory one turn longer than it found it: the turns it found, in their
\* order, and then the pair of the question and the chain's answer.
C1_CompletedAskAppendsOneTurn ==
    \A s \in Sessions :
        Answered(s) =>
            /\ Len(Mem(s)) = Len(run[s].mem0) + 1
            /\ Mem(s) = Append(run[s].mem0, <<run[s].prompt, run[s].response>>)

\* A second question has been answered in a session.
C1_Witness ==
    \E s \in Sessions : Answered(s) /\ Len(run[s].mem0) >= 1

\* handle_question was called on this run of session s and raised.
AskFailed(s) ==
    /\ pc[s] = "idle"
    /\ run[s].kind = "ask"
    /\ run[s].status = "exception"

\* C2: when a call made while answering a question fails (crc.run or
\* llm.invoke), Conversation Memory is what it was before the question.
C2_FailedAskLeavesMemory ==
    \A s \in Sessions : AskFailed(s) => Mem(s) = run[s].mem0

\* C3: the answer recorded in Conversation Memory for a question is the text
\* that was streamed to the user for that question.
C3_RecordedAnswerIsDelivered ==
    \A s \in Sessions :
        Answered(s) => Mem(s)[Len(Mem(s))][2] = run[s].delivered

\* C4: a question asked in a session that holds no chain fails with an error
\* on the page, reaches no external service and leaves Conversation Memory
\* and the session's history entry as they were.
C4_AskWithoutDocumentFails ==
    \A s \in Sessions :
        ( /\ pc[s] = "idle"
          /\ run[s].kind = "ask"
          /\ Len(messages[s]) >= 2
          /\ ~run[s].crc0.set )
        => /\ run[s].status = "exception"
           /\ "exception" \in run[s].shown
           /\ run[s].calls = {}
           /\ Mem(s) = run[s].mem0
           /\ ~crc[s].set

\* A question has been asked before any file was processed, in a session
\* that already answers to its chat input.
C4_Witness ==
    \E s \in Sessions :
        /\ AskFailed(s)
        /\ ~run[s].crc0.set
        /\ messages[s] = <<Greeting, <<"user", run[s].prompt>>>>

\* C9: when the user's next event arrives before the streaming of an answer
\* has completed, no turn for the interrupted question is in Conversation
\* Memory afterwards.
C9_InterruptedAskLeavesNoTurn ==
    \A s \in Sessions :
        (pc[s] = "idle" /\ run[s].status = "stopped") => Mem(s) = run[s].mem0

\* load_and_process_file is at work in session s.
Building(s) == pc[s] \in {"load", "split", "embed", "publish"}

\* The "Process File" run of session s ended without a new chain.
BuildFailed(s) ==
    /\ run[s].kind = "process"
    /\ ~Building(s)
    /\ "processed" \notin run[s].shown

\* C5: the chain a question can reach holds a completely built index or there
\* is none: while a file is being processed the session still holds the chain
\* the run found, and so it does after a build that failed.
C5_OnlyCompleteIndexVisible ==
    \A s \in Sessions :
        /\ crc[s].set => Complete(crc[s].index)
        /\ Building(s) => crc[s] = run[s].crc0
        /\ BuildFailed(s) => crc[s] = run[s].crc0

\* A session that holds a chain is rebuilding: one chunk of the new index is
\* embedded, the next is not yet.
C5_Witness ==
    \E s \in Sessions :
        /\ pc[s] = "embed"
        /\ building[s].chunks = 1
        /\ crc[s].set

EndsWith(str, suffix) ==
    /\ Len(str) >= Len(suffix)
    /\ SubSeq(str, Len(str) - Len(suffix) + 1, Len(str)) = suffix

\* The names that end in a dot and one of pdf, docx, txt.
SupportedName(name) ==
    \E e \in {<<"p", "d", "f">>, <<"d", "o", "c", "x">>, <<"t", "x", "t">>} :
        EndsWith(name, <<".">> \o e)

\* load_and_process_file was called on this run and has passed line 41.
Dispatched(s) ==
    /\ run[s].kind = "process"
    /\ \E key \in run[s].guardKeys : StartsWith(key, SkPrefix)
    /\ pc[s] # "load"

\* C6: processing a file whose name does not end in a supported extension
\* shows the unsupported-format error, calls no loader, no splitter and no
\* embedding service, and leaves the session's chain as it was.
C6_UnsupportedExtensionRejected ==
    \A s \in Sessions :
        (Dispatched(s) /\ ~SupportedName(uploaded[s])) =>
            /\ "unsupported" \in run[s].shown
            /\ run[s].calls = {}
            /\ "processed" \notin run[s].shown
            /\ ~Building(s)
            /\ building[s] = NoIndex
            /\ crc[s] = run[s].crc0

\* A file with an unsupported extension has been processed in a session that
\* holds a chain from an earlier file.
C6_Witness ==
    \E s \in Sessions :
        /\ Dispatched(s)
        /\ ~SupportedName(uploaded[s])
        /\ pc[s] = "idle"
        /\ crc[s].set

\* C10: a "Process File" run, successful or not, leaves Conversation Memory
\* as it found it; the chat_history handed to crc.run is Conversation Memory;
\* and turns leave Conversation Memory only by clear_history.
C10_ProcessKeepsMemory ==
    /\ [](\A s \in Sessions :
            /\ run[s].kind = "process" => Mem(s) = run[s].mem0
            /\ "crc.run" \in run[s].calls => run[s].chatHistory = run[s].mem0)
    /\ [][\A s \in Sessions :
            Mem(s)' # Mem(s) =>
                \/ \E a \in Answers : Mem(s)' = Append(Mem(s), <<run[s].prompt, a>>)
                \/ clear_history(s)]_vars

\* A second file has been processed in a session that holds turns about the
\* first.
C10_Witness ==
    \E s \in Sessions :
        /\ run[s].kind = "process"
        /\ "processed" \in run[s].shown
        /\ run[s].crc0.set
        /\ crc[s].index.name # run[s].crc0.index.name
        /\ Len(Mem(s)) >= 1

\* C7: a "Process File" click that finds no API key ends with the page
\* telling the user that the key is missing.
C7_MissingKeyIsReported ==
    \A s \in Sessions :
        (pc[s] = "idle" /\ run[s].guardKeys = {EmptyStr}) =>
            \/ "add your key" \in run[s].shown
            \/ "exception" \in run[s].shown

\* The keys of session s: what its user types, or what secrets.toml holds.
OwnKeys(s) == users[s].keys \cup {EmptyStr, EnvKey}

\* C8: sessions are isolated: the index of a session holds the bytes its own
\* user uploaded, and its chain works with its own user's credential,
\* whatever the other session does.
C8_SessionsIsolated ==
    \A s \in Sessions :
        crc[s].set =>
            /\ crc[s].index.doc = FileBytes(s, crc[s].index.name)
            /\ crc[s].index.embedKey \in OwnKeys(s)
            /\ crc[s].llmKey \in OwnKeys(s)

====
